---- MODULE Spec2Model ----
(***************************************************************************)
(* Model of complexity/generator.py: the graph generator, the string and   *)
(* string-pair generator, and the generator factory (registry).            *)
(*                                                                         *)
(* A string is the sequence of its characters, and an alphabet is a list   *)
(* of one-character strings; random draws are                              *)
(* nondeterministic choices over the values the standard library's         *)
(* random.random, random.randint, random.choice and random.choices can     *)
(* return.  A networkx graph is its insertion-ordered node list and its    *)
(* adjacency dictionary (ordered pair -> weight attribute).               *)
(***************************************************************************)
EXTENDS Integers, Sequences, FiniteSets, TLC

\* ------------------------------------------------------------------ bounds
\* Largest graph size requested from GraphGenerator.generate.
MaxSize == 3
\* Longest string requested from generate, and from generate_pair without
\* similarity.
MaxLen == 4
\* Longest first string requested from generate_pair with similarity.
MaxSimLen == 6
\* Most register_generator calls made on a factory.
MaxRegistrations == 3
\* Largest graph size requested under a seeded random source.
MaxSeededSize == 2

None == "None"

\* --------------------------------------------------------------- variables
VARIABLES
    \* GraphGenerator: the object's fields, and the locals of a generate call
    directed, weighted, gpc, size, i, j, graph, trials, result,
    \* StringGenerator: the object's field, the arguments of the operation in
    \* progress, its locals, and how it ended
    alphabet, spc, sop, argAlphabet, len1, len2, similar,
    str1, str2, k, m, draws, sres, serr,
    \* DataGeneratorFactory: the registry, the register calls made so far, and
    \* the last get_generator call's argument, result and error
    generators, registered, fpc, fname, fres, ferr,
    \* The random source when it is seeded: the outcomes of its draws in
    \* order, the number of draws made since seeding, and the first graph
    \* returned under the seed
    stream, spos, ref

gvars == <<directed, weighted, gpc, size, i, j, graph, trials, result>>
svars == <<alphabet, spc, sop, argAlphabet, len1, len2, similar,
           str1, str2, k, m, draws, sres, serr>>
fvars == <<generators, registered, fpc, fname, fres, ferr>>
dvars == <<stream, spos, ref>>
vars == <<gvars, svars, fvars, dvars>>

\* ========================================================= GraphGenerator

\* Sizes passed to generate: the negative one, zero, and up to MaxSize.
Sizes == -1..MaxSize

\* range(n) of the Python code.
Range(n) == 0..(n - 1)

\* No graph: the value of the local before a call creates one.
NoGraph == [nodes |-> <<>>, adj |-> <<>>]

\* Mutant: the container is made once and every call fills the graph the
\* last one returned.
NewGraphShared(d) == result

\* The empty graph container: nx.DiGraph() or nx.Graph().
NewGraph(d) == [nodes |-> <<>>, adj |-> <<>>]

HasNode(g, n) == \E x \in 1..Len(g.nodes) : g.nodes[x] = n

\* Mutant: graph.add_node(n + 1).
AddNodeNext(g, n) ==
    IF HasNode(g, n + 1) THEN g ELSE [g EXCEPT !.nodes = Append(g.nodes, n + 1)]

\* graph.add_node(n): appends n to the node dictionary unless present.
AddNode(g, n) ==
    IF HasNode(g, n) THEN g ELSE [g EXCEPT !.nodes = Append(g.nodes, n)]

\* The adjacency entries add_edge(u, v) writes: u -> v, and for an undirected
\* graph v -> u as well.
EdgeKeys(d, u, v) == IF d THEN {<<u, v>>} ELSE {<<u, v>>, <<v, u>>}

\* graph.add_edge(u, v, weight=w): creates missing end nodes, then writes the
\* weight attribute under the adjacency keys (overwriting an older one).
AddEdge(g, d, u, v, w) ==
    LET g1 == AddNode(AddNode(g, u), v)
        keys == EdgeKeys(d, u, v)
    IN  [g1 EXCEPT !.adj = [p \in keys |-> w] @@ g1.adj]

\* The position of node n in the graph's node order.
NodeIndex(g, n) == CHOOSE x \in 1..Len(g.nodes) : g.nodes[x] = n

\* graph.edges(data=True): every adjacency entry of a directed graph; for an
\* undirected one each entry once, from the end that comes first in the node
\* order.
Edges(g, d) ==
    {<<p[1], p[2], g.adj[p]>> : p \in
        {q \in DOMAIN g.adj :
            d \/ NodeIndex(g, q[1]) <= NodeIndex(g, q[2])}}

\* The values random.randint(1, 10) can return, or the fixed 1.
Weights(w) == IF w THEN 1..10 ELSE {1}

\* Mutant: graph.add_edge(j, i, ...).
EdgeEndsSwapped(a, b) == <<b, a>>

\* The edge the code inserts for the pair visited at loop position (a, b).
EdgeEnds(a, b) == <<a, b>>

\* Mutant: range(i, size).
InnerStartSame(a) == a

\* The inner loop's first index: range(i + 1, size).
InnerStart(a) == a + 1

\* Is (a, b) a position of the nested loops?
InLoop(a, b, n) == a \in Range(n) /\ b >= InnerStart(a) /\ b < n

\* The first loop position at or after outer index a, <<n, n>> when there
\* is none left.
RECURSIVE FirstFrom(_, _)
FirstFrom(a, n) ==
    IF a >= n THEN <<n, n>>
    ELSE IF InLoop(a, InnerStart(a), n) THEN <<a, InnerStart(a)>>
    ELSE FirstFrom(a + 1, n)

\* The loop position that follows (a, b).
NextPos(a, b, n) ==
    IF InLoop(a, b + 1, n) THEN <<a, b + 1>> ELSE FirstFrom(a + 1, n)

\* generate(n) is entered: graph = nx.DiGraph() if directed else nx.Graph()
Enter(n) ==
    /\ size' = n
    /\ graph' = NewGraph(directed)
    /\ i' = 0 /\ j' = 0 /\ trials' = 0
    /\ result' = NoGraph
    /\ gpc' = "nodes"
    /\ UNCHANGED <<directed, weighted>>

\* A call of generate(size).
GraphCall ==
    /\ gpc = "idle"
    /\ \E n \in Sizes : Enter(n)
    /\ UNCHANGED <<svars, fvars, dvars>>

\* for i in range(size): graph.add_node(i)
NodeStep ==
    /\ gpc = "nodes"
    /\ i \in Range(size)
    /\ graph' = AddNode(graph, i)
    /\ i' = i + 1
    /\ UNCHANGED <<directed, weighted, gpc, size, j, trials, result>>
    /\ UNCHANGED <<svars, fvars, dvars>>

\* The node loop is exhausted: enter the edge loops, or return the graph
\* when they have no position at all.
NodesDone ==
    /\ gpc = "nodes"
    /\ i \notin Range(size)
    /\ LET p == FirstFrom(0, size) IN
        IF InLoop(p[1], p[2], size)
        THEN /\ gpc' = "edges" /\ i' = p[1] /\ j' = p[2]
             /\ UNCHANGED <<graph, result>>
        ELSE /\ gpc' = "done" /\ result' = graph /\ graph' = NoGraph
             /\ UNCHANGED <<i, j>>
    /\ UNCHANGED <<directed, weighted, size, trials>>
    /\ UNCHANGED <<svars, fvars, dvars>>

\* The trial at (i, j) has left the graph g: the loops move to their next
\* position, and after the last one the call returns g and its frame ends.
Advance(g) ==
    LET p == NextPos(i, j, size) IN
        IF InLoop(p[1], p[2], size)
        THEN /\ gpc' = "edges" /\ i' = p[1] /\ j' = p[2]
             /\ graph' = g
             /\ UNCHANGED result
        ELSE /\ gpc' = "done" /\ result' = g /\ graph' = NoGraph
             /\ UNCHANGED <<i, j>>

\* The trial at (i, j) fails: no edge for this pair.
Miss ==
    /\ trials' = trials + 1
    /\ Advance(graph)
    /\ UNCHANGED <<directed, weighted, size>>

\* The trial at (i, j) succeeds and the weight is w:
\* graph.add_edge(i, j, weight=weight)
Hit(w) ==
    /\ trials' = trials + 1
    /\ LET e == EdgeEnds(i, j)
           g == AddEdge(graph, directed, e[1], e[2], w)
       IN  Advance(g)
    /\ UNCHANGED <<directed, weighted, size>>

\* random.random() < 0.3 is false.
EdgeMiss ==
    /\ gpc = "edges"
    /\ Miss
    /\ UNCHANGED <<svars, fvars, dvars>>

\* random.random() < 0.3 is true: draw the weight and add the edge.
EdgeHit ==
    /\ gpc = "edges"
    /\ \E w \in Weights(weighted) : Hit(w)
    /\ UNCHANGED <<svars, fvars, dvars>>

\* The caller has taken the returned graph; the call's frame is gone and the
\* generator can be called again.
GraphRelease ==
    /\ gpc = "done"
    /\ gpc' = "idle"
    /\ size' = 0 /\ i' = 0 /\ j' = 0 /\ trials' = 0
    /\ result' = NoGraph
    /\ UNCHANGED <<directed, weighted, graph>>
    /\ UNCHANGED <<svars, fvars, dvars>>

\* GraphGenerator(directed, weighted) has been constructed.
GraphInit ==
    /\ directed \in BOOLEAN
    /\ weighted \in BOOLEAN
    /\ gpc = "idle"
    /\ size = 0 /\ i = 0 /\ j = 0 /\ trials = 0
    /\ graph = NoGraph
    /\ result = NoGraph

\* No GraphGenerator exists.
GraphOff ==
    /\ directed = FALSE /\ weighted = FALSE
    /\ gpc = "off"
    /\ size = 0 /\ i = 0 /\ j = 0 /\ trials = 0
    /\ graph = NoGraph
    /\ result = NoGraph

GraphNext ==
    GraphCall \/ NodeStep \/ NodesDone \/ EdgeMiss \/ EdgeHit \/ GraphRelease

\* ======================================================== StringGenerator

\* The alphabet arguments a StringGenerator is constructed with: unset, the
\* empty list, and lists of one-character symbols.
AlphabetArgs == {None, <<>>, << <<"A">>, <<"C">> >>}

\* Lengths passed to generate and, without similarity, to generate_pair.
Lens == -1..MaxLen

\* First lengths passed to generate_pair with similar=True.
SimLens == -1..MaxSimLen

\* Second lengths passed to generate_pair with similar=True.
SimLens2 == {-1, 1}

\* self.alphabet = alphabet if alphabet else ['A', 'B', 'C']
InitAlphabet(a) ==
    IF a = None \/ a = <<>> THEN << <<"A">>, <<"B">>, <<"C">> >> ELSE a

\* Mutant: random.choices(population, k=n - 1).
ChoicesShort(population, n) ==
    [1..(IF n > 1 THEN n - 1 ELSE 0) -> {population[x] : x \in DOMAIN population}]

\* The lists random.choices(population, k=n) can return: n elements of the
\* population, none when n <= 0.
Choices(population, n) ==
    [1..(IF n > 0 THEN n ELSE 0) -> {population[x] : x \in DOMAIN population}]

\* ''.join(parts): the concatenation of a list of strings, a string being
\* the sequence of its characters.
RECURSIVE Join(_)
Join(parts) ==
    IF parts = <<>> THEN <<>>
    ELSE parts[1] \o Join(Tail(parts))

\* list(s): the list of the one-character strings of s.
ListOf(s) == [x \in 1..Len(s) |-> <<s[x]>>]

\* The upper end of the mutation count's range: randint(1, len1 // 3).
MutationMax(n) == n \div 3

\* The values random.randint(lo, hi) can return; none when the range is empty,
\* where randint raises ValueError.
RandInt(lo, hi) == lo..hi

\* The number of mutation steps the loop performs for a drawn count c.
MutationSteps(c) == c

\* The locals of a call that has not reached them yet.
NoLocals ==
    /\ str1' = <<>> /\ str2' = <<>> /\ k' = 0 /\ m' = 0 /\ draws' = 0
    /\ sres' = None /\ serr' = None

\* StringGenerator(alphabet): the constructor.
Construct ==
    /\ spc = "new"
    /\ \E a \in AlphabetArgs :
        /\ argAlphabet' = a
        /\ alphabet' = InitAlphabet(a)
    /\ sop' = "init"
    /\ spc' = "ready"
    /\ UNCHANGED <<len1, len2, similar, str1, str2, k, m, draws, sres, serr>>
    /\ UNCHANGED <<gvars, fvars, dvars>>

\* generate(size): the draw of random.choices and the join.
Generate ==
    /\ spc = "ready"
    /\ \E n \in Lens :
        /\ len1' = n
        /\ \E parts \in Choices(alphabet, n) :
            /\ draws' = Len(parts)
            /\ sres' = Join(parts)
    /\ sop' = "generate"
    /\ spc' = "returned"
    /\ argAlphabet' = None /\ len2' = 0 /\ similar' = FALSE
    /\ str1' = <<>> /\ str2' = <<>> /\ k' = 0 /\ m' = 0 /\ serr' = None
    /\ UNCHANGED alphabet
    /\ UNCHANGED <<gvars, fvars, dvars>>

\* generate_pair(len1, len2, similar) up to str1 = self.generate(len1), and
\* str2 = list(str1) when similar.
PairCall ==
    /\ spc = "ready"
    /\ \E sim \in BOOLEAN :
        /\ similar' = sim
        /\ \E n1 \in (IF sim THEN SimLens ELSE Lens),
              n2 \in (IF sim THEN SimLens2 ELSE Lens) :
            /\ len1' = n1 /\ len2' = n2
            /\ \E parts \in Choices(alphabet, n1) :
                /\ draws' = Len(parts)
                /\ str1' = Join(parts)
                /\ str2' = IF sim THEN ListOf(Join(parts)) ELSE <<>>
        /\ spc' = IF sim THEN "count" ELSE "second"
    /\ sop' = "generate_pair"
    /\ argAlphabet' = None
    /\ k' = 0 /\ m' = 0 /\ sres' = None /\ serr' = None
    /\ UNCHANGED alphabet
    /\ UNCHANGED <<gvars, fvars, dvars>>

\* similar is false: return str1, self.generate(len2)
PairSecond ==
    /\ spc = "second"
    /\ \E parts \in Choices(alphabet, len2) :
        /\ draws' = Len(parts)
        /\ sres' = <<str1, Join(parts)>>
    /\ spc' = "returned"
    /\ UNCHANGED <<alphabet, sop, argAlphabet, len1, len2, similar,
                   str1, str2, k, m, serr>>
    /\ UNCHANGED <<gvars, fvars, dvars>>

\* range(random.randint(1, len1 // 3)): the mutation count is drawn.
PairCount ==
    /\ spc = "count"
    /\ RandInt(1, MutationMax(len1)) # {}
    /\ \E c \in RandInt(1, MutationMax(len1)) : k' = c
    /\ m' = 0
    /\ spc' = "mutate"
    /\ UNCHANGED <<alphabet, sop, argAlphabet, len1, len2, similar,
                   str1, str2, draws, sres, serr>>
    /\ UNCHANGED <<gvars, fvars, dvars>>

\* random.randint(1, len1 // 3) has an empty range: ValueError leaves
\* generate_pair.
PairCountRaises ==
    /\ spc = "count"
    /\ RandInt(1, MutationMax(len1)) = {}
    /\ serr' = "ValueError"
    /\ spc' = "raised"
    /\ UNCHANGED <<alphabet, sop, argAlphabet, len1, len2, similar,
                   str1, str2, k, m, draws, sres>>
    /\ UNCHANGED <<gvars, fvars, dvars>>

\* One pass of the mutation loop: str2[idx] = random.choice(self.alphabet);
\* after the last pass, return str1, ''.join(str2).
PairMutate ==
    /\ spc = "mutate"
    /\ m < MutationSteps(k)
    /\ \E idx \in RandInt(0, Len(str2) - 1), c \in Choices(alphabet, 1) :
        LET s2 == [str2 EXCEPT ![idx + 1] = c[1]] IN
            /\ str2' = s2
            /\ m' = m + 1
            /\ IF m + 1 < MutationSteps(k)
               THEN spc' = "mutate" /\ UNCHANGED sres
               ELSE spc' = "returned" /\ sres' = <<str1, Join(s2)>>
    /\ UNCHANGED <<alphabet, sop, argAlphabet, len1, len2, similar,
                   str1, k, draws, serr>>
    /\ UNCHANGED <<gvars, fvars, dvars>>

\* The caller has taken the result or the error; the generator can be
\* called again.
StringRelease ==
    /\ spc \in {"returned", "raised"}
    /\ spc' = "ready"
    /\ sop' = "none" /\ argAlphabet' = None
    /\ len1' = 0 /\ len2' = 0 /\ similar' = FALSE
    /\ NoLocals
    /\ UNCHANGED alphabet
    /\ UNCHANGED <<gvars, fvars, dvars>>

\* A StringGenerator is about to be constructed.
StringInit ==
    /\ alphabet = None /\ spc = "new" /\ sop = "none" /\ argAlphabet = None
    /\ len1 = 0 /\ len2 = 0 /\ similar = FALSE
    /\ str1 = <<>> /\ str2 = <<>> /\ k = 0 /\ m = 0 /\ draws = 0
    /\ sres = None /\ serr = None

\* No StringGenerator exists.
StringOff ==
    /\ alphabet = None /\ spc = "off" /\ sop = "none" /\ argAlphabet = None
    /\ len1 = 0 /\ len2 = 0 /\ similar = FALSE
    /\ str1 = <<>> /\ str2 = <<>> /\ k = 0 /\ m = 0 /\ draws = 0
    /\ sres = None /\ serr = None

StringNext ==
    \/ Construct \/ Generate \/ PairCall \/ PairSecond \/ PairCount
    \/ PairCountRaises \/ PairMutate \/ StringRelease


\* =================================================== DataGeneratorFactory

\* Names generators are registered and looked up under.
Names == {"linear", "graph", "string"}

\* Objects handed to register_generator: two generators and an object that
\* is no DataGenerator at all.
Objects == {"LinearDataGenerator", "GraphGenerator", "not_a_generator"}

\* self.generators = {}
EmptyDict == <<>>

\* Mutant: self.generators.setdefault(name, generator).
SetDefault(d, name, g) ==
    [x \in (DOMAIN d) \cup {name} |-> IF x \in DOMAIN d THEN d[x] ELSE g]

\* self.generators[name] = generator
SetItem(d, name, g) ==
    [x \in (DOMAIN d) \cup {name} |-> IF x = name THEN g ELSE d[x]]

\* name not in self.generators
Missing(d, name) == name \notin DOMAIN d

\* register_generator(name, generator)
Register ==
    /\ fpc \in {"ready", "got", "raised"}
    /\ Len(registered) < MaxRegistrations
    /\ \E name \in Names, g \in Objects :
        /\ generators' = SetItem(generators, name, g)
        /\ registered' = Append(registered, <<name, g>>)
    /\ fpc' = "ready" /\ fname' = None /\ fres' = None /\ ferr' = None
    /\ UNCHANGED <<gvars, svars, dvars>>

\* get_generator(name) returns self.generators[name]
Get ==
    /\ fpc \in {"ready", "got", "raised"}
    /\ \E name \in Names :
        /\ ~Missing(generators, name)
        /\ fname' = name
        /\ fres' = generators[name]
    /\ fpc' = "got" /\ ferr' = None
    /\ UNCHANGED <<generators, registered>>
    /\ UNCHANGED <<gvars, svars, dvars>>

\* get_generator(name) raises ValueError(f"Generator '{name}' not found.")
GetRaises ==
    /\ fpc \in {"ready", "got", "raised"}
    /\ \E name \in Names :
        /\ Missing(generators, name)
        /\ fname' = name
    /\ fpc' = "raised" /\ ferr' = "ValueError" /\ fres' = None
    /\ UNCHANGED <<generators, registered>>
    /\ UNCHANGED <<gvars, svars, dvars>>

\* DataGeneratorFactory() has been constructed.
FactoryInit ==
    /\ generators = EmptyDict /\ registered = <<>>
    /\ fpc = "ready" /\ fname = None /\ fres = None /\ ferr = None

\* No DataGeneratorFactory exists.
FactoryOff ==
    /\ generators = EmptyDict /\ registered = <<>>
    /\ fpc = "off" /\ fname = None /\ fres = None /\ ferr = None

FactoryNext == Register \/ Get \/ GetRaises

\* ================================================ the seeded random source

\* Sizes passed to generate under a seeded random source.
SeededSizes == -1..MaxSeededSize

\* No graph has been returned under the seed yet.
NoRef == [set |-> FALSE, size |-> 0, result |-> NoGraph]

\* The outcomes of the draws a successful trial makes: random.random() below
\* 0.3 and, for a weighted graph, random.randint(1, 10).
HitDraws(w) ==
    IF weighted THEN << <<"random", 1>>, <<"randint", w>> >>
    ELSE << <<"random", 1>> >>

\* The outcome of the draw a failed trial makes.
MissDraws == << <<"random", 0>> >>

\* The next Len(ds) draws have the outcomes ds: they repeat what the stream
\* holds at the source's position, and extend the stream where it ends.
Consume(ds) ==
    LET have == IF Len(stream) - spos < Len(ds) THEN Len(stream) - spos
                ELSE Len(ds)
    IN  /\ SubSeq(stream, spos + 1, spos + have) = SubSeq(ds, 1, have)
        /\ stream' = stream \o SubSeq(ds, have + 1, Len(ds))
        /\ spos' = spos + Len(ds)

\* The random source is put back to the start of its stream and
\* generate(size) is called; the graph of the first call under the seed is
\* kept for comparison.
SeededCall ==
    /\ gpc \in {"idle", "done"}
    /\ \E n \in SeededSizes : Enter(n)
    /\ spos' = 0
    /\ ref' = IF gpc = "done" /\ ~ref.set
              THEN [set |-> TRUE, size |-> size, result |-> result] ELSE ref
    /\ UNCHANGED stream
    /\ UNCHANGED <<svars, fvars>>

\* random.random() < 0.3 is false, under the seeded source.
SeededMiss ==
    /\ gpc = "edges"
    /\ Consume(MissDraws)
    /\ Miss
    /\ UNCHANGED ref
    /\ UNCHANGED <<svars, fvars>>

\* random.random() < 0.3 is true, under the seeded source.
SeededHit ==
    /\ gpc = "edges"
    /\ \E w \in Weights(weighted) : Consume(HitDraws(w)) /\ Hit(w)
    /\ UNCHANGED ref
    /\ UNCHANGED <<svars, fvars>>

\* The random source is the process-wide one, not seeded.
SeedOff == stream = <<>> /\ spos = 0 /\ ref = NoRef

SeededNext == SeededCall \/ NodeStep \/ NodesDone \/ SeededMiss \/ SeededHit

\* ========================================================== specifications

InitGraph == GraphInit /\ StringOff /\ FactoryOff /\ SeedOff
InitString == GraphOff /\ StringInit /\ FactoryOff /\ SeedOff
InitFactory == GraphOff /\ StringOff /\ FactoryInit /\ SeedOff

\* One object of the module is constructed and used.
Init == InitGraph \/ InitString \/ InitFactory

Next == GraphNext \/ StringNext \/ FactoryNext

\* The module's objects, each on its own.
Spec == Init /\ [][Next]_vars

\* A GraphGenerator.
SpecGraph == InitGraph /\ [][GraphNext]_vars

\* A StringGenerator.
SpecString == InitString /\ [][StringNext]_vars

\* A DataGeneratorFactory.
SpecFactory == InitFactory /\ [][FactoryNext]_vars

\* A GraphGenerator whose calls all start from the same seed.
SpecSeeded == InitGraph /\ [][SeededNext]_vars

\* ================================================================= claims

Max(a, b) == IF a > b THEN a ELSE b

\* Hamming distance of two strings of one length.
Hamming(a, b) == Cardinality({x \in 1..Len(a) : a[x] # b[x]})

\* The characters of the alphabet's symbols.
Symbols == {alphabet[x] : x \in DOMAIN alphabet}

\* s is a string over the alphabet.
OverAlphabet(s) == \A x \in 1..Len(s) : <<s[x]>> \in Symbols

\* A call generate_pair(len1, len2, similar) is in progress or has ended.
InPair == sop = "generate_pair" /\ spc \in {"second", "count", "mutate", "returned", "raised"}

\* C1: for len1 >= 1 and len2 >= 1, generate_pair(len1, len2, similar=True)
\* returns a pair (it does not raise), the mutation count is drawn from
\* 1..max(1, len1 // 3), both strings have length len1 and their Hamming
\* distance is at most max(1, len1 // 3).
C1_SimilarPairBound ==
    (InPair /\ similar /\ len1 >= 1 /\ len2 >= 1) =>
        /\ spc # "raised"
        /\ spc \in {"mutate", "returned"} => k \in 1..Max(1, len1 \div 3)
        /\ spc = "returned" =>
            /\ Len(sres[1]) = len1 /\ Len(sres[2]) = len1
            /\ Hamming(sres[1], sres[2]) <= Max(1, len1 \div 3)

\* C2: generate_pair(len1, len2, similar) with len1 <= 0 or len2 <= 0 ends
\* with an error and never returns a pair, whatever similar is.
C2_NonPositiveLengthRejected ==
    (InPair /\ (len1 <= 0 \/ len2 <= 0)) =>
        /\ spc # "returned"
        /\ spc = "raised" => serr = "ValueError"

\* C3: constructing a StringGenerator with an empty alphabet fails: an error
\* is raised, and the default alphabet is not substituted.
C3_EmptyAlphabetRejected ==
    (sop = "init" /\ argAlphabet = <<>>) =>
        /\ serr # None
        /\ alphabet # InitAlphabet(None)

\* C4: GraphGenerator.generate(size) returns no graph for a negative size.
C4_NegativeSizeRejected ==
    size < 0 => gpc # "done"

\* The graph a call is building, or the one it has returned.
Built == IF gpc = "done" THEN result ELSE graph

\* C5: every edge (u, v, w) of a graph under construction or returned has
\* 0 <= u < v < size, so there is no self-loop, a directed graph holds no
\* reverse edge v -> u, no pair is reported twice, and w is 1 for an
\* unweighted generator and within 1..10 otherwise.
C5_EdgeValidity ==
    (gpc \in {"nodes", "edges", "done"} /\ size >= 0) =>
        /\ \A e \in Edges(Built, directed) :
            /\ 0 <= e[1] /\ e[1] < e[2] /\ e[2] < size
            /\ IF weighted THEN 1 <= e[3] /\ e[3] <= 10 ELSE e[3] = 1
        /\ \A p \in DOMAIN Built.adj :
            /\ p[1] # p[2]
            /\ directed => <<p[2], p[1]>> \notin DOMAIN Built.adj
            /\ ~directed => Built.adj[<<p[2], p[1]>>] = Built.adj[p]

\* The returned graph has three edges, one of the largest weight.
C5_Witness ==
    /\ gpc = "done" /\ size = 3 /\ directed /\ weighted
    /\ DOMAIN result.adj = {<<0, 1>>, <<0, 2>>, <<1, 2>>}
    /\ result.adj[<<1, 2>>] = 10

\* C6: for size >= 0 the returned graph's nodes are exactly 0..size-1, each
\* once; no edge exists while the node loop runs and no node is missing once
\* the edge loops run; size 0 returns the graph with no nodes and no edges.
C6_NodeSet ==
    (gpc \in {"nodes", "edges", "done"} /\ size >= 0) =>
        /\ gpc = "nodes" => DOMAIN graph.adj = {}
        /\ gpc \in {"edges", "done"} =>
            /\ Len(Built.nodes) = size
            /\ \A x \in 1..size : Built.nodes[x] = x - 1
        /\ (gpc = "done" /\ size = 0) => result = [nodes |-> <<>>, adj |-> <<>>]

\* A graph of three nodes and an edge has been returned.
C6_Witness ==
    /\ gpc = "done" /\ size = 3
    /\ result.nodes = <<0, 1, 2>> /\ DOMAIN result.adj # {}

\* C7: generate(length) with length > 0 returns length symbols of the
\* alphabet, and generate_pair(len1, len2, similar=False) with len1, len2 > 0
\* returns strings of lengths len1 and len2 over the alphabet.
C7_StringLengths ==
    /\ (sop = "generate" /\ spc = "returned" /\ len1 > 0) =>
        /\ Len(sres) = len1
        /\ OverAlphabet(sres)
    /\ (sop = "generate_pair" /\ spc = "returned" /\ ~similar
            /\ len1 > 0 /\ len2 > 0) =>
        /\ Len(sres[1]) = len1 /\ OverAlphabet(sres[1])
        /\ Len(sres[2]) = len2 /\ OverAlphabet(sres[2])

\* A pair of strings of different lengths has been returned.
C7_Witness ==
    /\ sop = "generate_pair" /\ spc = "returned" /\ ~similar
    /\ len1 = 3 /\ len2 = 1 /\ Len(sres[1]) = 3 /\ Len(sres[2]) = 1

\* C8: a call of generate(size) that starts from the seed returns the graph
\* the first call of that size under the seed returned, whatever calls were
\* made in between.
C8_SeededDeterminism ==
    (gpc = "done" /\ ref.set /\ ref.size = size) => result = ref.result

\* A second call of size 2 has returned a graph with an edge.
C8_Witness ==
    /\ gpc = "done" /\ ref.set /\ ref.size = size /\ size = 2
    /\ DOMAIN result.adj # {}

\* Pairs i < j below n.
NumPairs(n) == (n * (n - 1)) \div 2

\* An upper bound of the steps the call in progress has left.
Pending ==
    CASE gpc = "nodes" -> (Max(size, 0) - i) + 1 + NumPairs(Max(size, 0))
      [] gpc = "edges" -> NumPairs(size) - trials
      [] spc = "second" -> 1
      [] spc = "count" -> 1 + Max(len1 \div 3, 0)
      [] spc = "mutate" -> k - m
      [] OTHER -> 0

Running == gpc \in {"nodes", "edges"} \/ spc \in {"second", "count", "mutate"}

\* C9: a returned generate(size), size >= 0, has made size*(size-1)/2 trials;
\* a returned generate(length), length >= 0, has made length symbol draws; a
\* returned similar generate_pair has made k mutation steps; and every step of
\* a call in progress lowers the bound of the steps it has left, which is
\* never negative.
C9_Termination ==
    /\ [](/\ (gpc = "done" /\ size >= 0) => trials = NumPairs(size)
          /\ (sop = "generate" /\ spc = "returned" /\ len1 >= 0) =>
                draws = len1
          /\ (sop = "generate_pair" /\ spc = "returned" /\ similar) =>
                m = k /\ k >= 1
          /\ Pending >= 0
          /\ Running => Pending > 0)
    /\ [][Running => Pending' < Pending]_vars

\* A graph of size 3 after three trials, or a similar pair after two
\* mutation steps, has been returned.
C9_Witness ==
    \/ gpc = "done" /\ size = 3 /\ trials = 3
    \/ sop = "generate_pair" /\ spc = "returned" /\ similar /\ m = 2

\* The object most recently registered under name in the register calls log.
RECURSIVE LastRegistered(_, _)
LastRegistered(log, name) ==
    IF log = <<>> THEN None
    ELSE IF log[Len(log)][1] = name THEN log[Len(log)][2]
    ELSE LastRegistered(SubSeq(log, 1, Len(log) - 1), name)

\* C10: get_generator(name) raises exactly when no register call named name,
\* and otherwise returns the object of the last register call that did; the
\* registry holds the last object registered under each name, whatever it is,
\* and a get_generator call leaves it so.
C10_Registry ==
    /\ fpc = "raised" =>
        /\ ferr = "ValueError"
        /\ \A x \in 1..Len(registered) : registered[x][1] # fname
    /\ fpc = "got" =>
        /\ \E x \in 1..Len(registered) : registered[x][1] = fname
        /\ fres = LastRegistered(registered, fname)
    /\ DOMAIN generators = {registered[x][1] : x \in 1..Len(registered)}
    /\ \A name \in DOMAIN generators :
        generators[name] = LastRegistered(registered, name)

\* A name registered twice has been looked up.
C10_Witness ==
    /\ fpc = "got" /\ fname = "graph" /\ fres = "not_a_generator"
    /\ registered = << <<"graph", "GraphGenerator">>,
                       <<"graph", "not_a_generator">> >>

====
